---- MODULE Spec2Model ----
(***************************************************************************)
(* Harvester-Tracker-Sim: the simulation engine (src/src/sim/engine.ts)    *)
(* and its frame driver (src/src/sim/useSimulation.ts).                    *)
(*                                                                         *)
(* The source computes in IEEE doubles.  The model computes in exact       *)
(* fixed point; every quantity is an integer number of the unit below,     *)
(* and the inputs are drawn from grids on which every product and          *)
(* quotient of tick is exact (GridExact states the divisibility).          *)
(*                                                                         *)
(*   speed (km/h)              0.1 km/h        5.5 km/h  = 55              *)
(*   speed (m/s)               1/360 m/s       kmh/3.6   = 10 * kmh        *)
(*   time                      ms; dtSec is held in simulated ms           *)
(*   length, pose.x, pose.y    1/360 m         7.5 m     = 2700            *)
(*   areaHarvestedHa           1/720 m2 = 1/7200000 ha                     *)
(*   yieldKgPerM2              0.1 kg/m2       0.6       = 6               *)
(*   mass (tankKg, capacity)   1/80000 kg      8000 kg   = 640000000       *)
(*   unloadRateKgPerMin        kg/min          3600                        *)
(*   throughputKgPerS          1/800000 kg/s                               *)
(*   lossPct                   0.001 %         1.0 %     = 1000            *)
(*   tankFillPct               1/6400000 %     100 %     = 640000000       *)
(***************************************************************************)
EXTENDS Integers, Sequences, FiniteSets, TLC

VARIABLES
    state,        \* useSimulation's SimState (useSimulation.ts:11)
    controls,     \* useSimulation's SimControls (useSimulation.ts:12)
    lastTick,     \* the last tick call: its inputs and its outcome, or NoTick
    frames,       \* number of frame callbacks run so far
    simMs,        \* simulated ms of the drain scenario's frames so far
    summaryWrites,\* number of the drain scenario's ticks that wrote state.summary
    fixedDtMs,    \* the drain scenario's fixed dtMs (0 when not in that scenario)
    lossArgs,     \* computeLossPct's arguments in the loss-function sweep
    lossResult,   \* <<computeLossPct(lossArgs)>>, or NoResult before the call
    lossPrev,     \* <<the result at the previous speed of the sweep>>, or NoResult
    laneSim,      \* useLaneSim: its props, its state and its running loop
    laneGen,      \* generateLanes: its arguments, its locals and its result
    updateQueue   \* React's queue of updates to useSimulation's two state hooks

vars == <<state, controls, lastTick, frames, simMs, summaryWrites,
          fixedDtMs, lossArgs, lossResult, lossPrev, laneSim, laneGen, updateQueue>>

\* the map's part of the state, which the engine and its hook never touch
mapVars == <<laneSim, laneGen, updateQueue>>

\* useLaneSim not mounted and generateLanes not called
NoLaneSim == [mounted |-> FALSE]
NoLaneGen == [phase |-> "idle"]
NoQueue == [mounted |-> FALSE]

(***************************************************************************)
(* Units                                                                   *)
(***************************************************************************)
MetreUnits == 360
KgUnits == 80000
HundredPct == 640000000
LossPctUnits == 1000

Metres(m) == m * MetreUnits
Kg(k) == k * KgUnits

\* IEEE-754 results of a division by zero, which no finite value of the
\* model equals.
Infinity == 2000000001
NaN == 2000000002
IsFinite(x) == x # Infinity /\ x # NaN

Min(a, b) == IF a <= b THEN a ELSE b
Max(a, b) == IF a >= b THEN a ELSE b
Abs(a) == IF a >= 0 THEN a ELSE -a

\* Math.min and Math.max on doubles: NaN is contagious.
MathMin(a, b) == IF a = NaN \/ b = NaN THEN NaN ELSE Min(a, b)
MathMax(a, b) == IF a = NaN \/ b = NaN THEN NaN ELSE Max(a, b)

\* Math.floor(a / b) for integers a, b; a division by zero gives an infinity
\* (0/0 gives NaN).
FloorDiv(a, b) ==
    IF b > 0 THEN a \div b
    ELSE IF b < 0 THEN (-a) \div (-b)
    ELSE IF a = 0 THEN NaN ELSE Infinity

\* a / b where the grid makes the quotient an integer.
ExactDiv(a, b) == IF a >= 0 THEN a \div b ELSE -((-a) \div b)

(***************************************************************************)
(* engine.ts: configuration and initial state                              *)
(***************************************************************************)
defaultField ==
    [width |-> Metres(600), height |-> Metres(400), headerWidth |-> 2700]

defaultMachine ==
    [tankCapacityKg |-> Kg(8000),
     unloadRateKgPerMin |-> 3600,
     optimalMinKmh |-> 50,
     optimalMaxKmh |-> 60,
     warnMaxKmh |-> 70,
     alarmMinKmh |-> 80,
     yieldKgPerM2 |-> 6,
     lossWarnPct |-> 1500,
     lossAlarmPct |-> 2000]

\* summary: null (line 97).  A written summary has isNull = FALSE; its
\* avgSpeedKmh (undefined, or 0 when nothing was travelled) is not modelled.
NullSummary == [isNull |-> TRUE, totalHarvestedKg |-> 0, avgLossPct |-> 0, areaHa |-> 0]

createInitialState ==
    [status |-> "Idle",
     field |-> defaultField,
     machine |-> defaultMachine,
     pose |-> [x |-> Metres(10), y |-> Metres(10), headingDeg |-> 0],
     laneIndex |-> 0,
     goingRight |-> TRUE,
     metrics |-> [speedKmh |-> 55,
                  distanceM |-> 0,
                  throughputKgPerS |-> 0,
                  tankKg |-> 0,
                  tankFillPct |-> 0,
                  lossPct |-> 800,
                  areaHarvestedHa |-> 0],
     timeScale |-> 1,
     summary |-> NullSummary]

kmhToMps(kmh) == kmh * 10

(***************************************************************************)
(* engine.ts: computeLossPct                                               *)
(***************************************************************************)
\* A mutant of LossQuadratic: the coefficient 0.25 of the earlier loss model.
LossQuadraticQuarter(speedKmh, optimalMax) ==
    LET t == speedKmh - optimalMax IN 1000 + (5 * t * t) \div 2

\* 1.0 + 0.5 * t * t with t = speedKmh - optimalMax
LossQuadratic(speedKmh, optimalMax) ==
    LET t == speedKmh - optimalMax IN 1000 + 5 * t * t

\* 1.5 + 1.5 * (speedKmh - 7)
LossLinear(speedKmh) == 1500 + 150 * (speedKmh - 70)

\* Math.min(12, 3.0 + 2.0 * (speedKmh - 8))
LossRedZone(speedKmh) == Min(12000, 3000 + 200 * (speedKmh - 80))

computeLossPct(speedKmh, optimalMax, alarmMin) ==
    IF speedKmh <= optimalMax THEN 1000
    ELSE IF speedKmh < 70 THEN LossQuadratic(speedKmh, optimalMax)
    ELSE IF speedKmh < alarmMin THEN LossLinear(speedKmh)
    ELSE LossRedZone(speedKmh)

(***************************************************************************)
(* engine.ts: tick                                                         *)
(*                                                                         *)
(* The three display-only metrics harvestingRateTPerH,                     *)
(* harvestingRateKgPerMin and lossKgPerHa (lines 172-176) are constant     *)
(* multiples of throughputKgPerS and lossPct and are not modelled.         *)
(***************************************************************************)
\* A mutant of StatusTransition: the alarm is sticky while paused.
StatusTransitionStickyAlarm(s, c) ==
    IF ~c.running /\ s.status # "Unloading" /\ s.status # "Alarm" THEN [s EXCEPT !.status = "Idle"]
    ELSE IF s.status # "Unloading" /\ c.running THEN [s EXCEPT !.status = "Harvesting"]
    ELSE s

\* A mutant of StatusTransition: an alarm, once raised, is left as it is.
StatusTransitionKeepsAlarm(s, c) ==
    IF s.status = "Alarm" THEN s
    ELSE IF ~c.running /\ s.status # "Unloading" THEN [s EXCEPT !.status = "Idle"]
    ELSE IF s.status # "Unloading" THEN [s EXCEPT !.status = "Harvesting"]
    ELSE s

\* lines 138-140
StatusTransition(s, c) ==
    IF ~c.running /\ s.status # "Unloading" THEN [s EXCEPT !.status = "Idle"]
    ELSE IF s.status # "Unloading" THEN [s EXCEPT !.status = "Harvesting"]
    ELSE s

\* lines 144-148: speedMps * dtSec in 1/360 m is speedMps * simMs / 1000
Travel(speedMps, dtSec) == ExactDiv(speedMps * dtSec, 1000)

Move(s, speedMps, dtSec) ==
    LET nextX == s.pose.x + (IF s.goingRight THEN 1 ELSE -1) * Travel(speedMps, dtSec)
        laneY == Metres(10) + s.laneIndex * s.field.headerWidth
    IN [s EXCEPT !.pose = [x |-> nextX,
                           y |-> Min(s.field.height - Metres(5), laneY),
                           headingDeg |-> IF s.goingRight THEN 0 ELSE 180]]

\* lines 151-153
SwitchAtRight(s) ==
    IF s.goingRight /\ s.pose.x >= s.field.width - Metres(10)
    THEN [s EXCEPT !.goingRight = FALSE, !.laneIndex = @ + 1, !.pose.headingDeg = 180]
    ELSE s

\* lines 154-156
SwitchAtLeft(s) ==
    IF ~s.goingRight /\ s.pose.x <= Metres(10)
    THEN [s EXCEPT !.goingRight = TRUE, !.laneIndex = @ + 1, !.pose.headingDeg = 0]
    ELSE s

\* A mutant of Wrap: the lane counter is never set back to 0.
WrapNever(s) == s

\* A mutant of DistanceAndArea: the swept area is not accumulated.
DistanceOnly(s, speedMps, dtSec) ==
    [s EXCEPT !.metrics.distanceM = @ + Abs(Travel(speedMps, dtSec))]

\* lines 159-160
MaxLanes(s) == FloorDiv(s.field.height - Metres(20), s.field.headerWidth)

Wrap(s) ==
    LET maxLanes == MaxLanes(s)
    IN IF IsFinite(maxLanes) /\ s.laneIndex > maxLanes
       THEN [s EXCEPT !.laneIndex = 0, !.pose.y = Metres(10)]
       ELSE s

\* lines 163-165: sweptAreaM2 in 1/720 m2 is (travel * headerWidth) / 180
DistanceAndArea(s, speedMps, dtSec) ==
    LET sweptAreaM2 == ExactDiv(Travel(speedMps, dtSec) * s.field.headerWidth, 180)
    IN [s EXCEPT !.metrics.distanceM = @ + Abs(Travel(speedMps, dtSec)),
                 !.metrics.areaHarvestedHa = @ + Max(0, sweptAreaM2)]

\* line 168, in 1/8 kg/s
PotentialKgPerS(s, speedMps) ==
    ExactDiv(speedMps * s.field.headerWidth * s.machine.yieldKgPerM2, 162000)

\* lines 169-170, in 1/800000 kg/s
CapturedKgPerS(s, speedMps, lossPct) ==
    PotentialKgPerS(s, speedMps) * (100 * LossPctUnits - lossPct)

\* tankKg / tankCapacityKg * 100 (lines 179, 201)
FillPct(tankKg, tankCapacityKg) ==
    IF tankCapacityKg = 0
    THEN (IF tankKg = 0 THEN NaN ELSE Infinity)
    ELSE IF tankCapacityKg > 0
    THEN tankKg * (HundredPct \div tankCapacityKg)
    ELSE -(tankKg * (HundredPct \div (-tankCapacityKg)))

\* A mutant of Harvest: tankKg = ... in place of tankKg += ...
HarvestAssignsTank(s, speedKmh, speedMps, dtSec) ==
    LET lossPct == computeLossPct(speedKmh, s.machine.optimalMaxKmh, s.machine.alarmMinKmh)
        capturedKgPerS == CapturedKgPerS(s, speedMps, lossPct)
        tankKg == ExactDiv(capturedKgPerS, 100) * ExactDiv(dtSec, 100)
    IN [s EXCEPT !.metrics.throughputKgPerS = capturedKgPerS,
                 !.metrics.lossPct = lossPct,
                 !.metrics.tankKg = tankKg,
                 !.metrics.tankFillPct =
                     MathMin(HundredPct, FillPct(tankKg, s.machine.tankCapacityKg))]

\* lines 171-179: capturedKgPerS * dtSec in 1/80000 kg is
\* capturedKgPerS * simMs / 10000
Harvest(s, speedKmh, speedMps, dtSec) ==
    LET lossPct == computeLossPct(speedKmh, s.machine.optimalMaxKmh, s.machine.alarmMinKmh)
        capturedKgPerS == CapturedKgPerS(s, speedMps, lossPct)
        tankKg == s.metrics.tankKg + ExactDiv(capturedKgPerS, 100) * ExactDiv(dtSec, 100)
    IN [s EXCEPT !.metrics.throughputKgPerS = capturedKgPerS,
                 !.metrics.lossPct = lossPct,
                 !.metrics.tankKg = tankKg,
                 !.metrics.tankFillPct =
                     MathMin(HundredPct, FillPct(tankKg, s.machine.tankCapacityKg))]

\* an optional number of MachineConfig that is not set
UndefinedNumber == 2000000003

\* A mutant of lossAlarm: no default for a threshold that is not set.
lossAlarmNoDefault(s) == s.machine.lossAlarmPct

\* line 182: s.machine.lossAlarmPct ?? 2.0
lossAlarm(s) ==
    IF s.machine.lossAlarmPct = UndefinedNumber THEN 2000 ELSE s.machine.lossAlarmPct

\* lines 182-185
EvaluateAlarm(s) ==
    IF s.metrics.lossPct >= lossAlarm(s) THEN [s EXCEPT !.status = "Alarm"] ELSE s

\* A mutant of TankFull: a tank filled under the loss alarm stays in Alarm.
TankFullUnlessAlarm(s) ==
    IF s.metrics.tankKg >= s.machine.tankCapacityKg /\ s.status # "Alarm"
    THEN [s EXCEPT !.status = "Unloading"] ELSE s

\* lines 188-190
TankFull(s) ==
    IF s.metrics.tankKg >= s.machine.tankCapacityKg THEN [s EXCEPT !.status = "Unloading"] ELSE s

\* lines 143-191
MoveAndHarvest(s, speedKmh, dtSec) ==
    LET speedMps == kmhToMps(speedKmh)
        moved == Wrap(SwitchAtLeft(SwitchAtRight(Move(s, speedMps, dtSec))))
        measured == DistanceAndArea(moved, speedMps, dtSec)
    IN TankFull(EvaluateAlarm(Harvest(measured, speedKmh, speedMps, dtSec)))

\* 0.01 kg (line 202)
DrainedEpsilonKg == 800

\* A mutant of Drain: the unloaded mass is added.
DrainAdds(s, dtSec) ==
    LET delta == ExactDiv(s.machine.unloadRateKgPerMin * dtSec * 4, 3)
    IN Max(0, s.metrics.tankKg + delta)

\* lines 198-200: unloadKgPerS * dtSec in 1/80000 kg is
\* unloadRateKgPerMin * simMs * 4 / 3
Drain(s, dtSec) ==
    LET delta == ExactDiv(s.machine.unloadRateKgPerMin * dtSec * 4, 3)
    IN Max(0, s.metrics.tankKg - delta)

\* line 202: this tick's unloading branch empties the tank
Drained(s, dtSec) == Drain(s, dtSec) <= DrainedEpsilonKg

\* A mutant of WriteSummary: the status is not set back to Harvesting.
WriteSummaryKeepsUnloading(s) ==
    [s EXCEPT !.summary = [isNull |-> FALSE,
                           totalHarvestedKg |-> s.machine.tankCapacityKg,
                           avgLossPct |-> s.metrics.lossPct,
                           areaHa |-> s.metrics.areaHarvestedHa],
              !.metrics.tankKg = 0,
              !.metrics.tankFillPct = 0]

\* lines 204-213
WriteSummary(s) ==
    [s EXCEPT !.summary = [isNull |-> FALSE,
                           totalHarvestedKg |-> s.machine.tankCapacityKg,
                           avgLossPct |-> s.metrics.lossPct,
                           areaHa |-> s.metrics.areaHarvestedHa],
              !.metrics.tankKg = 0,
              !.metrics.tankFillPct = 0,
              !.status = "Harvesting"]

\* A mutant of Unload: every unloading tick writes the summary.
UnloadAlwaysWritesSummary(s, dtSec) ==
    LET tankKg == Drain(s, dtSec)
    IN WriteSummary([s EXCEPT !.metrics.speedKmh = 0,
                              !.metrics.throughputKgPerS = 0,
                              !.metrics.tankKg = tankKg])

\* lines 194-215
Unload(s, dtSec) ==
    LET tankKg == Drain(s, dtSec)
        drained == [s EXCEPT !.metrics.speedKmh = 0,
                             !.metrics.throughputKgPerS = 0,
                             !.metrics.tankKg = tankKg,
                             !.metrics.tankFillPct = FillPct(tankKg, s.machine.tankCapacityKg)]
    IN IF Drained(s, dtSec) THEN WriteSummary(drained) ELSE drained

\* A mutant of BeforeUnload: the machine moves and harvests while unloading.
BeforeUnloadMovesWhileUnloading(dtMs, st, c) ==
    LET dtSec == dtMs * st.timeScale
        speedKmh == IF c.running THEN c.targetSpeedKmh ELSE 0
        s == StatusTransition(st, c)
    IN IF c.running
       THEN [MoveAndHarvest(s, speedKmh, dtSec) EXCEPT
                !.status = IF s.status = "Unloading" THEN "Unloading" ELSE @]
       ELSE s

\* A mutant of BeforeUnload: the move/harvest branch also runs when paused.
BeforeUnloadIgnoresRunning(dtMs, st, c) ==
    LET dtSec == dtMs * st.timeScale
        speedKmh == IF c.running THEN c.targetSpeedKmh ELSE 0
        s == StatusTransition(st, c)
    IN IF s.status # "Unloading" THEN MoveAndHarvest(s, speedKmh, dtSec) ELSE s

\* the state before the unloading branch (lines 133-191)
BeforeUnload(dtMs, st, c) ==
    LET dtSec == dtMs * st.timeScale
        speedKmh == IF c.running THEN c.targetSpeedKmh ELSE 0
        s == StatusTransition(st, c)
    IN IF s.status # "Unloading" /\ c.running THEN MoveAndHarvest(s, speedKmh, dtSec) ELSE s

\* line 219
DisplaySpeed(s, speedKmh) ==
    [s EXCEPT !.metrics.speedKmh = IF s.status = "Unloading" THEN 0 ELSE speedKmh]

tick(dtMs, st, c) ==
    LET dtSec == dtMs * st.timeScale
        speedKmh == IF c.running THEN c.targetSpeedKmh ELSE 0
        s == BeforeUnload(dtMs, st, c)
        u == IF s.status = "Unloading" THEN Unload(s, dtSec) ELSE s
    IN DisplaySpeed(u, speedKmh)

\* A mutant of structuredClone: the working object is the caller's own.
structuredCloneSameObject(ref) == ref

\* line 133: a new object, the deep copy of the one given
structuredClone(ref) == "clone"

\* tick on the heap: the caller's snapshot is the object "state", s refers to
\* the object structuredClone returns, and every assignment of lines 138-219
\* goes through s; the result is the object s refers to (line 220).
TickOnHeap(dtMs, st, c) ==
    LET s == structuredClone("state")
        before == [state |-> st, clone |-> st]
        after == [before EXCEPT ![s] = tick(dtMs, st, c)]
    IN [input |-> after.state, result |-> after[s]]

\* whether tick(dtMs, st, c) executes lines 204-213
WritesSummary(dtMs, st, c) ==
    LET s == BeforeUnload(dtMs, st, c)
    IN s.status = "Unloading" /\ Drained(s, dtMs * st.timeScale)

(***************************************************************************)
(* useSimulation.ts: the frame loop and the api                            *)
(***************************************************************************)
\* useState initial values (lines 11-12) and reset (line 31)
initialControls == [running |-> FALSE, targetSpeedKmh |-> 55]

NoTick == [called |-> FALSE]

\* The record of a tick call.  engine.ts has no throw statement and no
\* validation of its input: every call returns a state.
TickCall(dtMs, st, c) ==
    [called |-> TRUE, dtMs |-> dtMs, state |-> st, controls |-> c,
     outcome |-> "returned", result |-> tick(dtMs, st, c)]

\* Bounds and input grids
MaxFrames == 2
MaxLossSpeedKmh == 250
MaxDrainMs == 140000
TimeScales == {1, 2, 5, 20}                \* App.tsx line 77
TargetSpeeds == {55, 90, 1000}             \* 5.5, 9.0 and 100 km/h
ElapsedChoices == {0, 100, 200, 1000}      \* ms between two frame callbacks

\* A run of the program: setTimeScale(20), start, then n frames 200 ms apart
\* (Run halves n so that the evaluation stays shallow).  Replay(n) is the
\* state after the n-th frame.
ReplayControls == [running |-> TRUE, targetSpeedKmh |-> 55]

RECURSIVE Run(_, _, _, _)
Run(s, n, dtMs, c) ==
    IF n = 0 THEN s
    ELSE IF n = 1 THEN tick(dtMs, s, c)
    ELSE LET half == Run(s, n \div 2, dtMs, c)
         IN IF half.status = "" THEN half ELSE Run(half, n - n \div 2, dtMs, c)

Replay(n) == Run([createInitialState EXCEPT !.timeScale = 20], n, 200, ReplayControls)

\* Frames of that run after which the model starts: the last frame before the
\* tank is full (293), the frame that fills it (294), the drain (310), its
\* last frame (326) and the frame that empties the tank (327).
ReplayFrames == {293, 294, 310, 326, 327}

NoResult == <<>>
IdleLoss == [speedKmh |-> 0, optimalMax |-> 60, alarmMin |-> 80]

InitObservers ==
    /\ lastTick = NoTick
    /\ frames = 0
    /\ simMs = 0
    /\ summaryWrites = 0
    /\ fixedDtMs = 0
    /\ lossArgs = IdleLoss
    /\ lossResult = NoResult
    /\ lossPrev = NoResult

InitMap ==
    /\ laneSim = NoLaneSim
    /\ laneGen = NoLaneGen
    /\ updateQueue = NoQueue

Init ==
    /\ \/ state = createInitialState /\ controls = initialControls
       \/ \E n \in ReplayFrames : state = Replay(n) /\ controls = ReplayControls
    /\ InitObservers
    /\ InitMap

\* A mutant of FrameDtMs: the elapsed time is passed on as it is.
FrameDtMsUnclamped(elapsed) == elapsed

\* line 21: the dtMs passed to tick
FrameDtMs(elapsed) == Min(200, elapsed)

\* loop (lines 17-23): dt = now - last, tick with Math.min(200, dt)
Frame(elapsed) ==
    /\ frames < MaxFrames
    /\ LET dtMs == FrameDtMs(elapsed)
       IN /\ lastTick' = TickCall(dtMs, state, controls)
          /\ state' = tick(dtMs, state, controls)
    /\ frames' = frames + 1
    /\ UNCHANGED mapVars
    /\ UNCHANGED <<controls, simMs, summaryWrites, fixedDtMs, lossArgs, lossResult, lossPrev>>

\* api.start (line 29)
Start ==
    /\ frames < MaxFrames
    /\ controls' = [controls EXCEPT !.running = TRUE]
    /\ UNCHANGED mapVars
    /\ UNCHANGED <<state, lastTick, frames, simMs, summaryWrites, fixedDtMs,
                   lossArgs, lossResult, lossPrev>>

\* api.pause (line 30)
Pause ==
    /\ frames < MaxFrames
    /\ controls' = [controls EXCEPT !.running = FALSE]
    /\ UNCHANGED mapVars
    /\ UNCHANGED <<state, lastTick, frames, simMs, summaryWrites, fixedDtMs,
                   lossArgs, lossResult, lossPrev>>

\* api.reset (line 31)
Reset ==
    /\ frames < MaxFrames
    /\ state' = createInitialState
    /\ controls' = initialControls
    /\ UNCHANGED mapVars
    /\ UNCHANGED <<lastTick, frames, simMs, summaryWrites, fixedDtMs,
                   lossArgs, lossResult, lossPrev>>

\* api.setSpeed (line 32)
SetSpeed(v) ==
    /\ frames < MaxFrames
    /\ controls' = [controls EXCEPT !.targetSpeedKmh = v]
    /\ UNCHANGED mapVars
    /\ UNCHANGED <<state, lastTick, frames, simMs, summaryWrites, fixedDtMs,
                   lossArgs, lossResult, lossPrev>>

\* api.setTimeScale (line 33)
SetTimeScale(v) ==
    /\ frames < MaxFrames
    /\ state' = [state EXCEPT !.timeScale = v]
    /\ UNCHANGED mapVars
    /\ UNCHANGED <<controls, lastTick, frames, simMs, summaryWrites, fixedDtMs,
                   lossArgs, lossResult, lossPrev>>

Next ==
    \/ \E elapsed \in ElapsedChoices : Frame(elapsed)
    \/ Start
    \/ Pause
    \/ Reset
    \/ \E v \in TargetSpeeds : SetSpeed(v)
    \/ \E v \in TimeScales : SetTimeScale(v)

Spec == Init /\ [][Next]_vars

(***************************************************************************)
(* The drain scenario: repeated ticks of a fixed dtMs from a full tank     *)
(***************************************************************************)
\* A run of the program that ends with status Unloading and tankKg equal to
\* the capacity: 66.5 simulated seconds at 100 km/h (110 kg/s) and 50 at
\* 8 km/h (9.7 kg/s) bring the tank to 7800 kg; one more frame of 4 simulated
\* seconds at 100 km/h adds 440 kg, which fills the tank, and the same tick
\* unloads 240 kg.
DrainStart ==
    LET fast == [running |-> TRUE, targetSpeedKmh |-> 1000]
        slow == [running |-> TRUE, targetSpeedKmh |-> 80]
        a == Run([createInitialState EXCEPT !.timeScale = 20], 16, 200, fast)
        b == Run([a EXCEPT !.timeScale = 5], 2, 200, fast)
        c == Run(b, 1, 100, fast)
        d == Run([c EXCEPT !.timeScale = 20], 12, 200, slow)
        e == Run([d EXCEPT !.timeScale = 5], 2, 200, slow)
    IN Run([e EXCEPT !.timeScale = 20], 1, 200, fast)

FixedDtChoices == {100, 200}

InitDrain ==
    /\ \E ts \in TimeScales : state = [DrainStart EXCEPT !.timeScale = ts]
    /\ \E r \in BOOLEAN : controls = [running |-> r, targetSpeedKmh |-> 55]
    /\ fixedDtMs \in FixedDtChoices
    /\ lastTick = NoTick
    /\ frames = 0
    /\ simMs = 0
    /\ summaryWrites = 0
    /\ lossArgs = IdleLoss
    /\ lossResult = NoResult
    /\ lossPrev = NoResult
    /\ laneSim = NoLaneSim
    /\ laneGen = NoLaneGen
    /\ updateQueue = NoQueue

DrainFrame ==
    /\ simMs < MaxDrainMs
    /\ lastTick' = TickCall(fixedDtMs, state, controls)
    /\ state' = tick(fixedDtMs, state, controls)
    /\ frames' = frames + 1
    /\ simMs' = simMs + fixedDtMs * state.timeScale
    /\ summaryWrites' = summaryWrites + (IF WritesSummary(fixedDtMs, state, controls) THEN 1 ELSE 0)
    /\ UNCHANGED mapVars
    /\ UNCHANGED <<controls, fixedDtMs, lossArgs, lossResult, lossPrev>>

NextDrain == DrainFrame

SpecDrain == InitDrain /\ [][NextDrain]_vars

(***************************************************************************)
(* The path over the field: ticks around the boundaries and the last lane  *)
(***************************************************************************)
\* A run of the program: setTimeScale(20), setSpeed(100), start, then n frames
\* 200 ms apart (111.1 m a frame).  PathFrames are the frames after which the
\* model starts: the last frame before the first turn at the right boundary
\* (5), before the first turn at the left boundary (11), before the turn into
\* the last lane (809), and before the turn that ends the last lane (849: the
\* machine unloads a full tank on the way).
PathControls == [running |-> TRUE, targetSpeedKmh |-> 1000]

Path(n) == Run([createInitialState EXCEPT !.timeScale = 20], n, 200, PathControls)

PathFrames == {5, 11, 809, 849}

InitPath ==
    /\ \E n \in PathFrames : state = Path(n)
    /\ controls = PathControls
    /\ InitObservers
    /\ InitMap

SpecPath == InitPath /\ [][Next]_vars

(***************************************************************************)
(* tick on configurations other than the default one                       *)
(***************************************************************************)
\* <<headerWidth, tankCapacityKg, unloadRateKgPerMin>>: the default, and each
\* of the three zero or negative in turn
ConfigChoices ==
    {<<2700, Kg(8000), 3600>>,
     <<0, Kg(8000), 3600>>, <<-2700, Kg(8000), 3600>>,
     <<2700, 0, 3600>>, <<2700, -Kg(8000), 3600>>,
     <<2700, Kg(8000), 0>>, <<2700, Kg(8000), -3600>>}

\* loss alarm thresholds other than the default machine's: not set, and 5 %
LossAlarmChoices == {UndefinedNumber, 5000}

InitCfg ==
    /\ \/ \E cfg \in ConfigChoices :
             state = [createInitialState EXCEPT !.field.headerWidth = cfg[1],
                                                !.machine.tankCapacityKg = cfg[2],
                                                !.machine.unloadRateKgPerMin = cfg[3]]
       \/ \E pct \in LossAlarmChoices :
             state = [createInitialState EXCEPT !.machine.lossAlarmPct = pct]
    /\ controls = initialControls
    /\ InitObservers
    /\ InitMap

SpecCfg == InitCfg /\ [][Next]_vars

(***************************************************************************)
(* computeLossPct swept over the speeds, for several configurations        *)
(***************************************************************************)
OptimalMaxChoices == {20, 50, 60}
AlarmMinChoices == {65, 80, 90, 200}

InitLoss ==
    /\ state = createInitialState
    /\ controls = initialControls
    /\ lastTick = NoTick
    /\ frames = 0
    /\ simMs = 0
    /\ summaryWrites = 0
    /\ fixedDtMs = 0
    /\ \E om \in OptimalMaxChoices, am \in AlarmMinChoices :
          lossArgs = [speedKmh |-> 0, optimalMax |-> om, alarmMin |-> am]
    /\ lossResult = NoResult
    /\ lossPrev = NoResult
    /\ laneSim = NoLaneSim
    /\ laneGen = NoLaneGen
    /\ updateQueue = NoQueue

ComputeLoss ==
    /\ lossResult = NoResult
    /\ lossResult' = <<computeLossPct(lossArgs.speedKmh, lossArgs.optimalMax, lossArgs.alarmMin)>>
    /\ UNCHANGED mapVars
    /\ UNCHANGED <<state, controls, lastTick, frames, simMs, summaryWrites, fixedDtMs,
                   lossArgs, lossPrev>>

NextSpeed ==
    /\ lossResult # NoResult
    /\ lossArgs.speedKmh < MaxLossSpeedKmh
    /\ lossPrev' = lossResult
    /\ lossArgs' = [lossArgs EXCEPT !.speedKmh = @ + 1]
    /\ lossResult' = NoResult
    /\ UNCHANGED mapVars
    /\ UNCHANGED <<state, controls, lastTick, frames, simMs, summaryWrites, fixedDtMs>>

NextLoss == ComputeLoss \/ NextSpeed

SpecLoss == InitLoss /\ [][NextLoss]_vars

(***************************************************************************)
(* generateLanes (map/laneGen.ts) on planar polygons.  Lengths are in      *)
(* 0.1 m; x runs east and y north.  turf's geodesic operations are taken   *)
(* as their planar counterparts: lineOffset moves the baseline by the      *)
(* given distance across the lanes, lineSplit cuts it where it crosses the *)
(* boundary, booleanPointInPolygon keeps the pieces inside.                *)
(***************************************************************************)
DefaultHeaderWidthM == 75
DefaultMaxOffsets == 400
DefaultMinSegmentM == 100
EmptyStreakLimit == 20
\* an option left out of opts; one given is <<value>>
Undefined == <<>>

\* Polygon features: the outer ring without its closing vertex.
Rect(dx, dy) ==
    [kind |-> "rect", ring |-> << <<0, 0>>, <<dx, 0>>, <<dx, dy>>, <<0, dy>> >>]
\* a right trapezoid, 90 m across, its lanes 20 m to 50 m long
Trapezoid ==
    [kind |-> "trapezoid", ring |-> << <<0, 0>>, <<900, 0>>, <<900, 500>>, <<0, 200>> >>]
\* a C: 132 m x 60 m with a 20 m wide slot cut in from the east side
CShape ==
    [kind |-> "c",
     ring |-> << <<0, 0>>, <<1320, 0>>, <<1320, 200>>, <<440, 200>>,
                 <<440, 400>>, <<1320, 400>>, <<1320, 600>>, <<0, 600>> >>]

RECURSIVE SumCoord(_, _, _)
SumCoord(ring, k, n) == IF n = 0 THEN 0 ELSE ring[n][k] + SumCoord(ring, k, n - 1)

RECURSIVE MaxCoord(_, _, _)
MaxCoord(ring, k, n) ==
    IF n = 1 THEN ring[1][k] ELSE Max(ring[n][k], MaxCoord(ring, k, n - 1))

RECURSIVE MinCoord(_, _, _)
MinCoord(ring, k, n) ==
    IF n = 1 THEN ring[1][k] ELSE Min(ring[n][k], MinCoord(ring, k, n - 1))

\* turf.centroid: the mean of the ring's vertices
centroid(polygon) ==
    LET n == Len(polygon.ring)
    IN <<SumCoord(polygon.ring, 1, n) \div n, SumCoord(polygon.ring, 2, n) \div n>>

\* turf.bbox: <<minX, minY, maxX, maxY>>
bbox(polygon) ==
    LET n == Len(polygon.ring)
    IN <<MinCoord(polygon.ring, 1, n), MinCoord(polygon.ring, 2, n),
         MaxCoord(polygon.ring, 1, n), MaxCoord(polygon.ring, 2, n)>>

\* line 24 with opts.bearingDeg undefined: wider -> N-S lanes, taller -> E-W
AutoBearing(polygon) ==
    LET b == bbox(polygon)
    IN IF b[3] - b[1] >= b[4] - b[2] THEN 0 ELSE 90

\* The coordinate across the lanes (1: x, 2: y) and the one along them.
AcrossAxis(bearing) == IF bearing = 0 THEN 1 ELSE 2
AlongAxis(bearing) == IF bearing = 0 THEN 2 ELSE 1

\* the polygon's extent across the lanes, and along them
AcrossExtent(polygon, bearing) ==
    bbox(polygon)[AcrossAxis(bearing) + 2] - bbox(polygon)[AcrossAxis(bearing)]
AlongExtent(polygon, bearing) ==
    bbox(polygon)[AlongAxis(bearing) + 2] - bbox(polygon)[AlongAxis(bearing)]

\* The pieces of the offset line at across-coordinate u that lineSplit and
\* booleanPointInPolygon keep, each <<from, to>> along the lane, in the
\* direction of the baseline (p1 to p2).  A line that runs along an edge of
\* the polygon is cut or not, as lineSplit happens to do: edgeCounts.
Section(polygon, bearing, u, edgeCounts) ==
    LET across == AcrossExtent(polygon, bearing)
        along == AlongExtent(polygon, bearing)
        inside == (0 < u /\ u < across) \/ (edgeCounts /\ (u = 0 \/ u = across))
    IN IF ~inside THEN <<>>
       ELSE IF polygon.kind = "rect" THEN << <<0, along>> >>
       ELSE IF polygon.kind = "trapezoid" THEN << <<0, 200 + u \div 3>> >>
       ELSE IF u < 440 THEN << <<0, 600>> >>
       ELSE << <<0, 200>>, <<400, 600>> >>

\* lines 40-52: the pieces that become lanes
KeptSegments(segs, minSeg) ==
    SelectSeq(segs, LAMBDA f : ~(f[2] - f[1] < minSeg))

RECURSIVE AsLanes(_, _)
AsLanes(segs, u) ==
    IF segs = <<>> THEN <<>>
    ELSE <<[u |-> u, from |-> Head(segs)[1], to |-> Head(segs)[2]]>> \o AsLanes(Tail(segs), u)

\* lines 60-65: Array.prototype.sort (stable) on the across-coordinate of
\* each lane's first point
RECURSIVE InsertLane(_, _)
InsertLane(sorted, lane) ==
    IF sorted = <<>> THEN <<lane>>
    ELSE IF sorted[Len(sorted)].u <= lane.u THEN Append(sorted, lane)
    ELSE Append(InsertLane(SubSeq(sorted, 1, Len(sorted) - 1), lane), sorted[Len(sorted)])

RECURSIVE SortLanes(_, _)
SortLanes(lanes, n) ==
    IF n = 0 THEN <<>> ELSE InsertLane(SortLanes(lanes, n - 1), lanes[n])

ReverseLane(lane) == [lane EXCEPT !.from = lane.to, !.to = lane.from]

\* lines 68-73 (the source's index i is 0-based)
Boustrophedon(lanes) ==
    [k \in 1..Len(lanes) |-> IF (k - 1) % 2 = 1 THEN ReverseLane(lanes[k]) ELSE lanes[k]]

HeaderChoices == {75, 100, 0, -75}
MaxOffsetsChoices == {Undefined, <<2>>, <<30>>}
MinSegmentChoices == {Undefined, <<300>>}
PolygonChoices ==
    {Rect(600, 300), Rect(300, 500), Rect(260, 200), Rect(200, 150),
     Rect(600, 0), Rect(0, 0), Trapezoid, CShape}

\* lines 15-33: the call, up to the first test of the loop at line 34
CallGenerateLanes(polygon, opts, edgeCounts) ==
    LET maxOffsets == IF opts.maxOffsets = Undefined THEN DefaultMaxOffsets ELSE opts.maxOffsets[1]
    IN [phase |-> IF -maxOffsets <= maxOffsets THEN "scan" ELSE "sort",
        polygon |-> polygon,
        opts |-> opts,
        edgeCounts |-> edgeCounts,
        header |-> IF opts.headerWidthM = 0 THEN DefaultHeaderWidthM ELSE opts.headerWidthM,
        maxOffsets |-> maxOffsets,
        minSeg |-> IF opts.minSegmentM = Undefined THEN DefaultMinSegmentM ELSE opts.minSegmentM[1],
        bearing |-> AutoBearing(polygon),
        lanes |-> <<>>,
        emptyStreak |-> 0,
        i |-> -maxOffsets,
        examined |-> 0,
        broke |-> FALSE,
        outcome |-> "running"]

InitGen ==
    /\ state = createInitialState
    /\ controls = initialControls
    /\ InitObservers
    /\ laneSim = NoLaneSim
    /\ updateQueue = NoQueue
    /\ \E polygon \in PolygonChoices, h \in HeaderChoices, mo \in MaxOffsetsChoices,
          ms \in MinSegmentChoices, edgeCounts \in BOOLEAN :
          laneGen = CallGenerateLanes(polygon,
                        [headerWidthM |-> h, maxOffsets |-> mo, minSegmentM |-> ms],
                        edgeCounts)

BreakLoopAtAnyIndex(emptyStreak, i) == emptyStreak > EmptyStreakLimit

\* line 55
BreakLoop(emptyStreak, i) == emptyStreak > EmptyStreakLimit /\ i > 0

\* lines 34-56: one pass of the loop, with the test that follows it
ScanOffset ==
    /\ laneGen.phase = "scan"
    /\ LET g == laneGen
           offDist == g.i * g.header
           u == centroid(g.polygon)[AcrossAxis(g.bearing)]
                    - bbox(g.polygon)[AcrossAxis(g.bearing)] + offDist
           kept == KeptSegments(Section(g.polygon, g.bearing, u, g.edgeCounts), g.minSeg)
           addedThisOffset == Len(kept)
           emptyStreak == IF addedThisOffset = 0 THEN g.emptyStreak + 1 ELSE 0
           break == BreakLoop(emptyStreak, g.i)
       IN laneGen' = [g EXCEPT !.lanes = @ \o AsLanes(kept, u),
                               !.emptyStreak = emptyStreak,
                               !.examined = @ + 1,
                               !.broke = break,
                               !.i = IF break THEN @ ELSE @ + 1,
                               !.phase = IF break \/ g.i + 1 > g.maxOffsets
                                         THEN "sort" ELSE "scan"]
    /\ UNCHANGED <<state, controls, lastTick, frames, simMs, summaryWrites, fixedDtMs,
                   lossArgs, lossResult, lossPrev, laneSim, updateQueue>>

\* lines 60-74: sort, reverse every other lane, return
SortAndReturn ==
    /\ laneGen.phase = "sort"
    /\ laneGen' = [laneGen EXCEPT
                      !.lanes = Boustrophedon(SortLanes(laneGen.lanes, Len(laneGen.lanes))),
                      !.phase = "done",
                      !.outcome = "returned"]
    /\ UNCHANGED <<state, controls, lastTick, frames, simMs, summaryWrites, fixedDtMs,
                   lossArgs, lossResult, lossPrev, laneSim, updateQueue>>

NextGen == ScanOffset \/ SortAndReturn

SpecGen == InitGen /\ [][NextGen]_vars

(***************************************************************************)
(* useLaneSim (map/MapField.tsx, lines 113-160).  A lane is its length     *)
(* (turf.length) in 1/360 m, the unit kmhToMps gives per second; a         *)
(* position is the lane and the distance along it (turf.along).            *)
(***************************************************************************)
MaxLaneSteps == 5

\* lane sets: 10 m, 5 m and 7.5 m; one lane of 3.06 m; lanes shorter than a
\* frame's travel before a long one; and no lanes (the prop is then null)
LaneSetChoices ==
    {<<3600, 1800, 2700>>, <<1100>>, <<500, 300, 700, 4000>>, <<>>}

LaneControlsChoices ==
    [running : BOOLEAN, speedKmh : {55, 1000}, timeScale : {1, 20}]

LaneElapsedChoices == {0, 100, 1000}

NoPosition == <<>>
NoLoop == [active |-> FALSE]

RECURSIVE TotalLength(_, _)
TotalLength(lanes, n) == IF n = 0 THEN 0 ELSE lanes[n] + TotalLength(lanes, n - 1)

\* lanes[laneIndex] of the source, whose indices start at 0
LaneLenM(lanes, laneIndex) == lanes[laneIndex + 1]

\* A mutant of Advance: past the last lane the follower starts over at lane 0.
RECURSIVE AdvanceWrapping(_, _, _)
AdvanceWrapping(lanes, laneIndex, distM) ==
    IF distM > LaneLenM(lanes, laneIndex)
    THEN IF laneIndex < Len(lanes) - 1
         THEN AdvanceWrapping(lanes, laneIndex + 1, distM - LaneLenM(lanes, laneIndex))
         ELSE [laneIndex |-> 0, distM |-> 0]
    ELSE [laneIndex |-> laneIndex, distM |-> distM]

\* lines 134-141: the while loop
RECURSIVE Advance(_, _, _)
Advance(lanes, laneIndex, distM) ==
    IF distM > LaneLenM(lanes, laneIndex) /\ laneIndex < Len(lanes) - 1
    THEN Advance(lanes, laneIndex + 1, distM - LaneLenM(lanes, laneIndex))
    ELSE [laneIndex |-> laneIndex, distM |-> distM]

\* A mutant of AlongM: the distance is not clamped to the lane.
AlongMUnclamped(laneLenM, distM) == distM

\* line 142: the distance along the lane at which the position is taken
AlongM(laneLenM, distM) == Max(0, Min(laneLenM, distM))

\* line 131: the delta a step uses, in ms
LaneDeltaMs(dt) == Min(dt, 200)

\* line 129 and 131: the metres added by a frame of dt ms
LaneTravel(c, dt) ==
    LET speedMps == kmhToMps(c.speedKmh) * c.timeScale
    IN IF c.running THEN ExactDiv(speedMps * LaneDeltaMs(dt), 1000) ELSE 0

\* lines 127-150: the state updater of one frame
LaneStep(lanes, c, s, dt) == Advance(lanes, s.laneIndex, s.distM + LaneTravel(c, dt))

\* A mutant of ResetLaneState: the accumulator survives a change of lanes.
KeepLaneState(s) == s

\* line 157
ResetLaneState(s) == [laneIndex |-> 0, distM |-> 0]

\* lines 120-155: the effect (re)starts the loop, which closes over the lanes
\* and the controls object of the render that ran it; no loop without lanes
StartLoop(lanes, c) ==
    IF lanes = <<>> THEN NoLoop ELSE [active |-> TRUE, lanes |-> lanes, controls |-> c]

\* lines 114-118 and the two effects after the first render
MountLaneSim(lanes, c) ==
    [mounted |-> TRUE,
     lanes |-> lanes,
     controls |-> c,
     loop |-> StartLoop(lanes, c),
     state |-> [laneIndex |-> 0, distM |-> 0],
     position |-> NoPosition,
     steps |-> 0,
     \* observers: the last operation, the state it started from, the metres
     \* travelled and the frames run since the last reset, and the last
     \* frame's dt, the delta it used and the metres it added
     lastOp |-> "mount",
     prev |-> [laneIndex |-> 0, distM |-> 0],
     travelled |-> 0,
     stepsSinceReset |-> 0,
     elapsed |-> 0,
     delta |-> 0,
     added |-> 0]

InitLane ==
    /\ state = createInitialState
    /\ controls = initialControls
    /\ InitObservers
    /\ laneGen = NoLaneGen
    /\ updateQueue = NoQueue
    /\ \E lanes \in LaneSetChoices, c \in LaneControlsChoices :
          laneSim = MountLaneSim(lanes, c)

\* loop (lines 122-151): one animation frame
LaneFrame(elapsed) ==
    /\ laneSim.loop.active
    /\ laneSim.steps < MaxLaneSteps
    /\ LET lanes == laneSim.loop.lanes
           c == laneSim.loop.controls
           next == LaneStep(lanes, c, laneSim.state, elapsed)
           laneLenM == LaneLenM(lanes, next.laneIndex)
       IN laneSim' = [laneSim EXCEPT
                         !.state = next,
                         !.position = <<[lane |-> next.laneIndex,
                                         at |-> AlongM(laneLenM, next.distM)]>>,
                         !.steps = @ + 1,
                         !.lastOp = "step",
                         !.prev = laneSim.state,
                         !.travelled = @ + LaneTravel(c, elapsed),
                         !.stepsSinceReset = @ + 1,
                         !.elapsed = elapsed,
                         !.delta = LaneDeltaMs(elapsed),
                         !.added = LaneTravel(c, elapsed)]
    /\ UNCHANGED <<state, controls, lastTick, frames, simMs, summaryWrites, fixedDtMs,
                   lossArgs, lossResult, lossPrev, laneGen, updateQueue>>

\* a render with new controls: the first effect runs again when running or
\* speedKmh differ (line 155), and the loop then closes over the new object
SetLaneControls(c) ==
    /\ laneSim.steps < MaxLaneSteps
    /\ c # laneSim.controls
    /\ laneSim' = [laneSim EXCEPT
                      !.controls = c,
                      !.loop = IF c.running # laneSim.controls.running
                                   \/ c.speedKmh # laneSim.controls.speedKmh
                               THEN StartLoop(laneSim.lanes, c) ELSE @,
                      !.lastOp = "setControls",
                      !.prev = laneSim.state]
    /\ UNCHANGED <<state, controls, lastTick, frames, simMs, summaryWrites, fixedDtMs,
                   lossArgs, lossResult, lossPrev, laneGen, updateQueue>>

\* a render with another lane set: both effects run (lines 155 and 157)
SetLanes(lanes) ==
    /\ laneSim.steps < MaxLaneSteps
    /\ lanes # laneSim.lanes
    /\ laneSim' = [laneSim EXCEPT
                      !.lanes = lanes,
                      !.loop = StartLoop(lanes, laneSim.controls),
                      !.state = ResetLaneState(laneSim.state),
                      !.lastOp = "setLanes",
                      !.prev = laneSim.state,
                      !.travelled = 0,
                      !.stepsSinceReset = 0]
    /\ UNCHANGED <<state, controls, lastTick, frames, simMs, summaryWrites, fixedDtMs,
                   lossArgs, lossResult, lossPrev, laneGen, updateQueue>>

NextLane ==
    \/ \E elapsed \in LaneElapsedChoices : LaneFrame(elapsed)
    \/ \E c \in LaneControlsChoices : SetLaneControls(c)
    \/ \E lanes \in LaneSetChoices : SetLanes(lanes)

SpecLane == InitLane /\ [][NextLane]_vars

(***************************************************************************)
(* The two frame loops of the application side by side                     *)
(***************************************************************************)
\* App.tsx lines 99-107: the controls App hands to useLaneSim
AppLaneControls(st, c) ==
    [running |-> c.running /\ st.status # "Unloading",
     speedKmh |-> st.metrics.speedKmh,
     timeScale |-> st.timeScale]

\* ms between two frame callbacks: none, a regular one, and stalls of one
\* second and one minute (no choice is exactly 200)
StallChoices == {0, 100, 1000, 60000}

\* after api.start: useSimulation's loop and the lane follower's loop run
InitFrames ==
    /\ state = createInitialState
    /\ controls = [initialControls EXCEPT !.running = TRUE]
    /\ InitObservers
    /\ laneGen = NoLaneGen
    /\ updateQueue = NoQueue
    /\ \E lanes \in LaneSetChoices \ {<<>>} :
          laneSim = MountLaneSim(lanes, AppLaneControls(state, controls))

NextFrames ==
    \/ \E elapsed \in StallChoices : Frame(elapsed)
    \/ \E elapsed \in StallChoices : LaneFrame(elapsed)

SpecFrames == InitFrames /\ [][NextFrames]_vars

(***************************************************************************)
(* useSimulation with React's update queue.  A call of setState or         *)
(* setControls queues an update; the next render applies the queued        *)
(* updates in call order, an updater function receiving the state the      *)
(* updates before it produced.  Here state and controls are the values of  *)
(* the last render, the ones the closures of that render see.              *)
(***************************************************************************)
MaxCalls == 4
QueueElapsedChoices == {100, 1000}

Update(kind, dtMs, c, v) == [kind |-> kind, dtMs |-> dtMs, controls |-> c, v |-> v]

\* A mutant of ApplyUpdate: the frame's tick takes the state of the render
\* that created the loop, as setState(tick({state, ...})) would.
ApplyUpdateToRendered(rendered, s, u) ==
    IF u.kind = "tick" THEN tick(u.dtMs, rendered, u.controls)
    ELSE IF u.kind = "timeScale" THEN [s EXCEPT !.timeScale = u.v]
    ELSE IF u.kind = "reset" THEN createInitialState
    ELSE s

\* the update of the state hook queued by line 21 (an updater on the latest
\* state s, not on the rendered one), line 33 (an updater) and line 31 (a value)
ApplyUpdate(rendered, s, u) ==
    IF u.kind = "tick" THEN tick(u.dtMs, s, u.controls)
    ELSE IF u.kind = "timeScale" THEN [s EXCEPT !.timeScale = u.v]
    ELSE IF u.kind = "reset" THEN createInitialState
    ELSE s

\* the update of the controls hook queued by line 29 (an updater) and line 31
ApplyControls(c, u) ==
    IF u.kind = "start" THEN [c EXCEPT !.running = TRUE]
    ELSE IF u.kind = "reset" THEN initialControls
    ELSE c

RECURSIVE FlushState(_, _, _)
FlushState(rendered, s, updates) ==
    IF updates = <<>> THEN s
    ELSE FlushState(rendered, ApplyUpdate(rendered, s, Head(updates)), Tail(updates))

RECURSIVE FlushControls(_, _)
FlushControls(c, updates) ==
    IF updates = <<>> THEN c
    ELSE FlushControls(ApplyControls(c, Head(updates)), Tail(updates))

\* the index of the last queued tick, or 0
RECURSIVE LastTickIndex(_, _)
LastTickIndex(updates, n) ==
    IF n = 0 THEN 0
    ELSE IF updates[n].kind = "tick" THEN n
    ELSE LastTickIndex(updates, n - 1)

\* lines 11-14: the hook after its first render; requested and flushed are
\* observers: the time scale the last setTimeScale or reset asked for, and
\* the updates the last render applied
MountQueue ==
    [mounted |-> TRUE, updates |-> <<>>, calls |-> 0, requested |-> 1, flushed |-> <<>>]

InitQueue ==
    /\ state = createInitialState
    /\ controls = initialControls
    /\ InitObservers
    /\ laneSim = NoLaneSim
    /\ laneGen = NoLaneGen
    /\ updateQueue = MountQueue

Enqueue(u) ==
    [updateQueue EXCEPT !.updates = Append(@, u), !.calls = @ + 1]

\* loop (lines 17-23): the callback queues tick as an updater, with the
\* controls of the render whose effect created the loop (line 26)
QueueFrame(elapsed) ==
    /\ updateQueue.calls < MaxCalls
    /\ updateQueue' = Enqueue(Update("tick", FrameDtMs(elapsed), controls, 0))
    /\ UNCHANGED <<state, controls, lastTick, frames, simMs, summaryWrites, fixedDtMs,
                   lossArgs, lossResult, lossPrev, laneSim, laneGen>>

\* api.start (line 29)
QueueStart ==
    /\ updateQueue.calls < MaxCalls
    /\ updateQueue' = Enqueue(Update("start", 0, controls, 0))
    /\ UNCHANGED <<state, controls, lastTick, frames, simMs, summaryWrites, fixedDtMs,
                   lossArgs, lossResult, lossPrev, laneSim, laneGen>>

\* api.setTimeScale (line 33)
QueueSetTimeScale(v) ==
    /\ updateQueue.calls < MaxCalls
    /\ updateQueue' = [Enqueue(Update("timeScale", 0, controls, v)) EXCEPT !.requested = v]
    /\ UNCHANGED <<state, controls, lastTick, frames, simMs, summaryWrites, fixedDtMs,
                   lossArgs, lossResult, lossPrev, laneSim, laneGen>>

\* api.reset (line 31)
QueueReset ==
    /\ updateQueue.calls < MaxCalls
    /\ updateQueue' = [Enqueue(Update("reset", 0, controls, 0))
                          EXCEPT !.requested = createInitialState.timeScale]
    /\ UNCHANGED <<state, controls, lastTick, frames, simMs, summaryWrites, fixedDtMs,
                   lossArgs, lossResult, lossPrev, laneSim, laneGen>>

\* a render: React applies the queued updates of both hooks in call order
Render ==
    /\ updateQueue.mounted
    /\ updateQueue.updates # <<>>
    /\ LET updates == updateQueue.updates
           k == LastTickIndex(updates, Len(updates))
       IN /\ state' = FlushState(state, state, updates)
          /\ controls' = FlushControls(controls, updates)
          /\ lastTick' = IF k = 0 THEN lastTick
                         ELSE TickCall(updates[k].dtMs,
                                       FlushState(state, state, SubSeq(updates, 1, k - 1)),
                                       updates[k].controls)
          /\ updateQueue' = [updateQueue EXCEPT !.updates = <<>>, !.flushed = updates]
    /\ UNCHANGED <<frames, simMs, summaryWrites, fixedDtMs,
                   lossArgs, lossResult, lossPrev, laneSim, laneGen>>

NextQueue ==
    \/ \E elapsed \in QueueElapsedChoices : QueueFrame(elapsed)
    \/ QueueStart
    \/ \E v \in TimeScales : QueueSetTimeScale(v)
    \/ QueueReset
    \/ Render

SpecQueue == InitQueue /\ [][NextQueue]_vars

(***************************************************************************)
(* The divisibility that makes the fixed-point arithmetic of a tick exact  *)
(***************************************************************************)
GridExact ==
    lastTick.called =>
        LET st == lastTick.state
            dtSec == lastTick.dtMs * st.timeScale
            speedKmh == IF lastTick.controls.running THEN lastTick.controls.targetSpeedKmh ELSE 0
            speedMps == kmhToMps(speedKmh)
            lossPct == computeLossPct(speedKmh, st.machine.optimalMaxKmh, st.machine.alarmMinKmh)
        IN /\ (speedMps * dtSec) % 1000 = 0
           /\ (Travel(speedMps, dtSec) * Abs(st.field.headerWidth)) % 180 = 0
           /\ (speedMps * Abs(st.field.headerWidth) * st.machine.yieldKgPerM2) % 162000 = 0
           /\ Abs(CapturedKgPerS(st, speedMps, lossPct)) % 100 = 0
           /\ dtSec % 100 = 0
           /\ (Abs(st.machine.unloadRateKgPerMin) * dtSec * 4) % 3 = 0
           /\ (st.machine.tankCapacityKg # 0 =>
                   HundredPct % Abs(st.machine.tankCapacityKg) = 0)

(***************************************************************************)
(* Claims                                                                  *)
(***************************************************************************)
\* The last tick call's input state, controls and returned state.
In == lastTick.state
Ctl == lastTick.controls
Out == lastTick.result

\* C1: a tick with running = false from a status other than Unloading returns
\* status Idle and displayed speed 0, whatever the target speed, dtMs and
\* timeScale.
C1_PausedTickIsIdle ==
    (lastTick.called /\ ~Ctl.running /\ In.status # "Unloading")
        => (Out.status = "Idle" /\ Out.metrics.speedKmh = 0)

C1_Witness ==
    /\ lastTick.called
    /\ ~Ctl.running
    /\ In.status = "Alarm"
    /\ Ctl.targetSpeedKmh = 1000
    /\ lastTick.dtMs = 200
    /\ In.timeScale = 20
    /\ Out.status = "Idle"

\* C2: in every reachable state 0 <= tankKg <= tankCapacityKg.
C2_TankWithinCapacity ==
    /\ 0 <= state.metrics.tankKg
    /\ state.metrics.tankKg <= state.machine.tankCapacityKg

\* C3: every state returned by tick has tankFillPct = 100 * tankKg /
\* tankCapacityKg, and that value lies in [0, 100].
C3_FillPctOfTank ==
    lastTick.called =>
        /\ Out.metrics.tankFillPct = FillPct(Out.metrics.tankKg, Out.machine.tankCapacityKg)
        /\ 0 <= Out.metrics.tankFillPct
        /\ Out.metrics.tankFillPct <= HundredPct

\* C4: from tankKg = capacity and status Unloading, ticks of a fixed dtMs keep
\* the status Unloading until the tick that brings tankKg to <= 0.01; that
\* tick comes within capacity / (unloadRateKgPerMin / 60) simulated seconds,
\* give or take one tick, returns Harvesting with tankKg = 0, and is the only
\* tick of the drain that writes a summary, with totalHarvestedKg = capacity.
DrainTickMs == fixedDtMs * state.timeScale

\* simMs * rate against the drain time capacity / (rate / 60 s) in ms
WithinOneTickOfDrainTime ==
    LET rate == state.machine.unloadRateKgPerMin
        due == (state.machine.tankCapacityKg \div KgUnits) * 60000
    IN /\ (simMs - DrainTickMs) * rate <= due
       /\ due <= (simMs + DrainTickMs) * rate

C4_DrainFromFull ==
    /\ summaryWrites <= 1
    /\ summaryWrites = 0 => (state.status = "Unloading" /\ state.summary.isNull)
    /\ summaryWrites = 0 =>
           simMs * state.machine.unloadRateKgPerMin
               < (state.machine.tankCapacityKg \div KgUnits) * 60000
    /\ (lastTick.called /\ In.status = "Unloading" /\ Out.status # "Unloading") =>
           /\ summaryWrites = 1
           /\ Out.status = "Harvesting"
           /\ Out.metrics.tankKg = 0
           /\ WithinOneTickOfDrainTime
    /\ summaryWrites = 1 =>
           /\ ~state.summary.isNull
           /\ state.summary.totalHarvestedKg = state.machine.tankCapacityKg
           /\ state.status # "Unloading"

C4_Witness ==
    /\ lastTick.called
    /\ In.status = "Unloading"
    /\ In.metrics.tankKg > DrainedEpsilonKg
    /\ state.status = "Harvesting"
    /\ summaryWrites = 1
    /\ fixedDtMs = 100
    /\ state.timeScale = 1
    /\ frames > 1000

\* C5: computeLossPct returns the specified piecewise value for every speed
\* and every configuration: 1.0 up to optimalMax, 1.0 + 0.5 (speed -
\* optimalMax)^2 below 7, 1.5 + 1.5 (speed - 7) below alarmMin, and
\* min(12, 3.0 + 2.0 (speed - alarmMin)) from alarmMin on.
SpecifiedLossPct(speedKmh, optimalMax, alarmMin) ==
    IF speedKmh <= optimalMax THEN 1000
    ELSE IF speedKmh < 70 THEN 1000 + 5 * (speedKmh - optimalMax) * (speedKmh - optimalMax)
    ELSE IF speedKmh < alarmMin THEN 1500 + 150 * (speedKmh - 70)
    ELSE Min(12000, 3000 + 200 * (speedKmh - alarmMin))

C5_LossAsSpecified ==
    lossResult # NoResult =>
        lossResult[1] = SpecifiedLossPct(lossArgs.speedKmh, lossArgs.optimalMax, lossArgs.alarmMin)

\* C6: computeLossPct never returns more than 12, for every speed and every
\* configuration of optimalMaxKmh and alarmMinKmh.
C6_LossAtMostTwelve ==
    lossResult # NoResult => lossResult[1] <= 12 * LossPctUnits

\* C7: with optimalMax = 6 and alarmMin = 8, computeLossPct is non-decreasing
\* in the speed, the pieces left and right of 6, 7 and 8 agree there, and the
\* values at 6, 7, 8, 10 and 20 are 1.0, 1.5, 3.0, 7.0 and 12.0.
DefaultLossConfig ==
    /\ lossArgs.optimalMax = defaultMachine.optimalMaxKmh
    /\ lossArgs.alarmMin = defaultMachine.alarmMinKmh

C7_DefaultLossCurve ==
    (lossResult # NoResult /\ DefaultLossConfig) =>
        LET v == lossArgs.speedKmh
            r == lossResult[1]
        IN /\ lossPrev # NoResult => lossPrev[1] <= r
           /\ v = 60 => (r = 1000 /\ LossQuadratic(60, 60) = r)
           /\ v = 70 => (r = 1500 /\ LossQuadratic(70, 60) = r /\ LossLinear(70) = r)
           /\ v = 80 => (r = 3000 /\ LossLinear(80) = r /\ LossRedZone(80) = r)
           /\ v = 100 => r = 7000
           /\ v = 200 => r = 12000

C7_Witness ==
    /\ DefaultLossConfig
    /\ lossArgs.speedKmh = 80
    /\ lossResult = <<3000>>
    /\ lossPrev = <<2850>>

StaysBelowCapacity ==
    BeforeUnload(lastTick.dtMs, In, Ctl).status # "Unloading"

C9_FillNonIncreasingWhileUnloading ==
    (lastTick.called /\ In.status = "Unloading")
        => Out.metrics.tankFillPct <= In.metrics.tankFillPct

C9_Witness ==
    /\ lastTick.called
    /\ In.status = "Unloading"
    /\ Out.status = "Unloading"
    /\ lastTick.dtMs = 100
    /\ Out.metrics.tankFillPct < In.metrics.tankFillPct

\* C10: tick fails with InvalidConfig, and returns no state, whenever the
\* input's headerWidth, tankCapacityKg or unloadRateKgPerMin is <= 0.
InvalidConfig(st) ==
    \/ st.field.headerWidth <= 0
    \/ st.machine.tankCapacityKg <= 0
    \/ st.machine.unloadRateKgPerMin <= 0

C10_InvalidConfigRejected ==
    (lastTick.called /\ InvalidConfig(In)) => lastTick.outcome = "InvalidConfig"

\* generateLanes' call: its polygon, its options and its lanes so far
Gen == laneGen
GenCalled == laneGen.phase # "idle"
GenReturned == laneGen.phase = "done"

\* C11: generateLanes fails with InvalidConfig when headerWidthM <= 0; it
\* neither substitutes a default width nor scans an offset with a spacing
\* that is not positive, and it returns no lanes.
C11_InvalidHeaderRejected ==
    (GenCalled /\ Gen.opts.headerWidthM <= 0) =>
        /\ Gen.examined = 0
        /\ Gen.header # DefaultHeaderWidthM
        /\ (Gen.phase \in {"sort", "done"} => Gen.outcome = "InvalidConfig")

\* C17: for a rectangle of extent W across the lanes and a header width h > 0,
\* with the default maxOffsets and a minSegment below the rectangle's other
\* extent, generateLanes returns exactly floor(W / h) lanes, each inside the
\* rectangle.
RectangleCase ==
    /\ GenReturned
    /\ Gen.polygon.kind = "rect"
    /\ Gen.opts.headerWidthM > 0
    /\ Gen.opts.maxOffsets = Undefined
    /\ Gen.minSeg < AlongExtent(Gen.polygon, Gen.bearing)

LaneInside(lane, polygon, bearing) ==
    /\ 0 <= lane.u /\ lane.u <= AcrossExtent(polygon, bearing)
    /\ 0 <= Min(lane.from, lane.to)
    /\ Max(lane.from, lane.to) <= AlongExtent(polygon, bearing)

C17_RectangleLaneCount ==
    RectangleCase =>
        /\ Len(Gen.lanes) = AcrossExtent(Gen.polygon, Gen.bearing) \div Gen.header
        /\ \A k \in 1..Len(Gen.lanes) : LaneInside(Gen.lanes[k], Gen.polygon, Gen.bearing)

\* C18: in the returned list every odd-indexed lane runs against the baseline
\* and every even-indexed one with it, and the start of lane i+1 is within
\* headerWidth of the end of lane i, for every i.
StartNearEnd(prev, next, header) ==
    (next.u - prev.u) * (next.u - prev.u) + (next.from - prev.to) * (next.from - prev.to)
        <= header * header

C18_Boustrophedon ==
    GenReturned =>
        /\ \A k \in 1..Len(Gen.lanes) :
              IF (k - 1) % 2 = 1 THEN Gen.lanes[k].from >= Gen.lanes[k].to
              ELSE Gen.lanes[k].from <= Gen.lanes[k].to
        /\ \A k \in 1..(Len(Gen.lanes) - 1) :
              StartNearEnd(Gen.lanes[k], Gen.lanes[k + 1], Gen.header)

\* C19: generateLanes terminates, having examined at most 2 * maxOffsets + 1
\* offsets; it leaves the loop early only at a positive offset index with
\* more than 20 consecutive offsets that added no lane; and a polygon none of
\* whose offsets adds a lane gives the empty list, returned, not an error.
Unusable(polygon, bearing, minSeg) ==
    \/ AcrossExtent(polygon, bearing) = 0
    \/ AlongExtent(polygon, bearing) < minSeg

ScanBounded ==
    GenCalled =>
        /\ Gen.examined <= 2 * Gen.maxOffsets + 1
        /\ Gen.outcome \in {"running", "returned"}
        /\ Gen.broke => (Gen.i > 0 /\ Gen.emptyStreak > EmptyStreakLimit
                            /\ Gen.phase \in {"sort", "done"})
        /\ (Gen.phase \in {"sort", "done"} /\ ~Gen.broke) =>
               (Gen.examined = 2 * Gen.maxOffsets + 1 /\ Gen.i = Gen.maxOffsets + 1)
        /\ (GenReturned /\ Unusable(Gen.polygon, Gen.bearing, Gen.minSeg)) =>
               (Gen.lanes = <<>> /\ Gen.outcome = "returned")

\* Each pass of the loop is the (i + maxOffsets + 1)-th, so the loop makes at
\* most 2 * maxOffsets + 1 passes; until it has returned the call is at the
\* loop or at the sort, each of which always has a next step.
LoopVariant ==
    GenCalled =>
        /\ Gen.phase = "scan" =>
               /\ -Gen.maxOffsets <= Gen.i /\ Gen.i <= Gen.maxOffsets
               /\ Gen.examined = Gen.i + Gen.maxOffsets
        /\ ~GenReturned => Gen.phase \in {"scan", "sort"}

C19_TerminatesBounded == ScanBounded /\ LoopVariant

C19_Witness ==
    /\ GenReturned
    /\ Gen.polygon = Rect(0, 0)
    /\ Gen.edgeCounts
    /\ Gen.broke
    /\ Gen.examined = DefaultMaxOffsets + 2
    /\ Gen.lanes = <<>>

HarvestFillsTank ==
    /\ Ctl.running
    /\ In.status # "Unloading"
    /\ BeforeUnload(lastTick.dtMs, In, Ctl).metrics.tankKg >= In.machine.tankCapacityKg

C20_UnloadingTakesPrecedence ==
    lastTick.called =>
        /\ HarvestFillsTank => Out.status = "Unloading"
        /\ In.status = "Unloading" =>
               Out.status = IF Drain(In, lastTick.dtMs * In.timeScale) <= DrainedEpsilonKg
                            THEN "Harvesting" ELSE "Unloading"

C20_Witness ==
    /\ lastTick.called
    /\ HarvestFillsTank
    /\ In.status = "Harvesting"
    /\ Out.metrics.lossPct >= In.machine.lossAlarmPct
    /\ Out.status = "Unloading"

\* The lane follower: its stored lane index and distance, and its lane set.
Follower == laneSim.state
FollowerLanes == laneSim.lanes
FollowerStepped == laneSim.mounted /\ laneSim.lastOp = "step"

\* C13: with a non-empty lane list the stored laneIndex is within
\* 0..lanes.length - 1 after any sequence of steps, and a step never lowers
\* it (only a reset does).
C13_LaneIndexInRange ==
    (laneSim.mounted /\ FollowerLanes # <<>>) =>
        /\ 0 <= Follower.laneIndex
        /\ Follower.laneIndex <= Len(FollowerLanes) - 1
        /\ FollowerStepped => laneSim.prev.laneIndex <= Follower.laneIndex

C13_Witness ==
    /\ FollowerStepped
    /\ Len(FollowerLanes) = 4
    /\ laneSim.prev.laneIndex = 0
    /\ Follower.laneIndex = 3
    /\ laneSim.stepsSinceReset = 1

\* C14: after every step the stored distM lies in [0, length of
\* lanes[laneIndex]], also once the follower is on the final lane and keeps
\* running.
C14_DistanceWithinLane ==
    FollowerStepped =>
        /\ 0 <= Follower.distM
        /\ Follower.distM <= LaneLenM(FollowerLanes, Follower.laneIndex)

\* C15: once the metres travelled since the last reset exceed the total
\* length of the lanes, every step leaves the follower on the last lane with
\* its position at that lane's end.
LanesExhausted ==
    /\ FollowerStepped
    /\ laneSim.travelled > TotalLength(FollowerLanes, Len(FollowerLanes))

C15_ClampsAtFinalLane ==
    LanesExhausted =>
        /\ Follower.laneIndex = Len(FollowerLanes) - 1
        /\ laneSim.position =
               <<[lane |-> Len(FollowerLanes) - 1,
                  at |-> FollowerLanes[Len(FollowerLanes)]]>>

C15_Witness ==
    /\ LanesExhausted
    /\ Len(FollowerLanes) = 3
    /\ laneSim.prev.laneIndex = 2
    /\ laneSim.prev.distM > FollowerLanes[3]
    /\ Follower.distM > laneSim.prev.distM
    /\ laneSim.stepsSinceReset >= 3

C22_PausedTickChangesOnlyStatusAndSpeed ==
    (lastTick.called /\ ~Ctl.running /\ In.status # "Unloading") =>
        Out = [In EXCEPT !.status = Out.status, !.metrics.speedKmh = Out.metrics.speedKmh]

C22_Witness ==
    /\ lastTick.called
    /\ ~Ctl.running
    /\ In.status = "Harvesting"
    /\ In.metrics.speedKmh > 0
    /\ In.metrics.tankKg > 0
    /\ lastTick.dtMs = 200
    /\ Out.status # In.status
    /\ Out.metrics.speedKmh # In.metrics.speedKmh

\* C24: the alarm blocks nothing: a tick on a state that differs from the
\* input only in its status, both statuses being among Alarm, Harvesting and
\* Idle, returns the same state.
NotUnloading == {"Idle", "Harvesting", "Alarm"}

C24_AlarmDoesNotBlock ==
    (lastTick.called /\ In.status \in NotUnloading) =>
        \A other \in NotUnloading :
            tick(lastTick.dtMs, [In EXCEPT !.status = other], Ctl) = Out

C24_Witness ==
    /\ lastTick.called
    /\ In.status = "Alarm"
    /\ Ctl.running
    /\ Ctl.targetSpeedKmh = 55
    /\ Out.status = "Harvesting"
    /\ Out.metrics.distanceM > In.metrics.distanceM
    /\ Out.metrics.tankKg > In.metrics.tankKg
    /\ Out.pose # In.pose

\* C25: tick writes the summary exactly on the ticks that run the unloading
\* branch and leave tankKg <= 0.01; the summary then holds the capacity, the
\* current lossPct and the harvested area, tankKg and tankFillPct are 0 and
\* the status is Harvesting; every other tick returns the summary it was given.
CompletesUnload ==
    LET before == BeforeUnload(lastTick.dtMs, In, Ctl)
    IN /\ before.status = "Unloading"
       /\ Max(0, before.metrics.tankKg
                   - ExactDiv(before.machine.unloadRateKgPerMin
                                  * lastTick.dtMs * In.timeScale * 4, 3))
              <= DrainedEpsilonKg

C25_SummaryOnlyWhenDrained ==
    lastTick.called =>
        IF CompletesUnload
        THEN /\ Out.summary = [isNull |-> FALSE,
                               totalHarvestedKg |-> Out.machine.tankCapacityKg,
                               avgLossPct |-> Out.metrics.lossPct,
                               areaHa |-> Out.metrics.areaHarvestedHa]
             /\ Out.metrics.tankKg = 0
             /\ Out.metrics.tankFillPct = 0
             /\ Out.status = "Harvesting"
        ELSE Out.summary = In.summary

C25_Witness ==
    /\ lastTick.called
    /\ CompletesUnload
    /\ In.summary.isNull
    /\ In.metrics.tankKg > DrainedEpsilonKg
    /\ ~Out.summary.isNull
    /\ Out.summary.areaHa > 0

\* C23: a running tick from a status other than Unloading whose tank stays
\* below the capacity returns Alarm when the loss computed for the tick's
\* speed is at or above machine.lossAlarmPct (2.0 when that is not set) and
\* Harvesting otherwise, whatever the input status: an Alarm lasts only as
\* long as the loss stays at or above the threshold.
AlarmThreshold ==
    IF In.machine.lossAlarmPct = UndefinedNumber THEN 2 * LossPctUnits
    ELSE In.machine.lossAlarmPct

LastLane(s) == (s.field.height - Metres(20)) \div s.field.headerWidth

FlipsAtBoundary ==
    /\ Out.goingRight # In.goingRight
    /\ IF In.goingRight THEN Out.pose.x >= In.field.width - Metres(10)
       ELSE Out.pose.x <= Metres(10)

C26_LaneCounter ==
    /\ state.laneIndex >= 0
    /\ state.laneIndex <= LastLane(state)
    /\ lastTick.called =>
          /\ (Out.laneIndex # In.laneIndex) => FlipsAtBoundary
          /\ FlipsAtBoundary =>
                Out.laneIndex = IF In.laneIndex + 1 > LastLane(In) THEN 0
                                ELSE In.laneIndex + 1

C26_Witness ==
    /\ lastTick.called
    /\ FlipsAtBoundary
    /\ In.laneIndex = LastLane(In)
    /\ Out.laneIndex = 0

Supplied == laneSim.controls

C27_UsesSuppliedTimeScale ==
    (FollowerStepped /\ Supplied.running) =>
        laneSim.added * 1000
            = kmhToMps(Supplied.speedKmh) * Supplied.timeScale * Min(laneSim.elapsed, 200)

\* The step adds what the controls captured when the loop was started give.
C27_UsesCapturedTimeScale ==
    (FollowerStepped /\ laneSim.loop.controls.running) =>
        laneSim.added * 1000
            = kmhToMps(laneSim.loop.controls.speedKmh) * laneSim.loop.controls.timeScale
                * Min(laneSim.elapsed, 200)

C27_StaleStep ==
    /\ FollowerStepped
    /\ Supplied.running
    /\ Supplied.timeScale = 20
    /\ laneSim.loop.controls.timeScale = 1
    /\ laneSim.elapsed = 1000
    /\ laneSim.added = 110

(***************************************************************************)
(* C28: whatever the time between two frame callbacks, the dtMs that       *)
(* useSimulation passes to tick and the delta the lane follower's step     *)
(* uses are at most 200 ms.                                                *)
(***************************************************************************)
C28_ElapsedClamped ==
    /\ lastTick.called => lastTick.dtMs <= 200
    /\ FollowerStepped =>
          /\ laneSim.delta <= 200
          /\ laneSim.added * 1000
                <= kmhToMps(laneSim.loop.controls.speedKmh)
                     * laneSim.loop.controls.timeScale * 200

\* both loops have run a frame after a stall
C28_Witness ==
    /\ lastTick.called
    /\ lastTick.dtMs = 200
    /\ FollowerStepped
    /\ laneSim.elapsed = 60000
    /\ laneSim.delta = 200
    /\ laneSim.added > 0

(***************************************************************************)
(* C29: generateLanes retains a piece of an offset line if and only if its *)
(* midpoint is inside the polygon and its length is strictly greater than  *)
(* minSegmentM; a piece exactly minSegmentM long is not retained.          *)
(***************************************************************************)
LaneLength(lane) == Abs(lane.to - lane.from)

C29_RetainedExceedMinimum ==
    GenCalled => \A k \in 1..Len(Gen.lanes) : LaneLength(Gen.lanes[k]) > Gen.minSeg

\* What the code retains: the inside pieces at least minSegmentM long.
C29_RetainedReachMinimum ==
    GenCalled => \A k \in 1..Len(Gen.lanes) : LaneLength(Gen.lanes[k]) >= Gen.minSeg

C29_RetainedAtMinimum ==
    /\ GenReturned
    /\ Gen.lanes # <<>>
    /\ \A k \in 1..Len(Gen.lanes) : LaneLength(Gen.lanes[k]) = Gen.minSeg

(***************************************************************************)
(* C31: a setTimeScale(v) interleaved in any order with frame ticks is     *)
(* never lost: a tick leaves timeScale, machine and field as they are, and *)
(* once no setTimeScale or reset is waiting to be applied, the state's     *)
(* timeScale is the one the last setTimeScale asked for (1 after a reset), *)
(* whatever ticks were queued before or after it.                          *)
(***************************************************************************)
Queue == updateQueue

ScalePending ==
    \E k \in 1..Len(Queue.updates) : Queue.updates[k].kind \in {"timeScale", "reset"}

C31_TimeScaleNotLost ==
    /\ lastTick.called =>
          /\ Out.timeScale = In.timeScale
          /\ Out.machine = In.machine
          /\ Out.field = In.field
    /\ (Queue.mounted /\ ~ScalePending) => state.timeScale = Queue.requested

\* a render applied setTimeScale(20) and then a running frame's tick that
\* was queued when the rendered time scale was still 1
C31_Witness ==
    /\ Queue.mounted
    /\ Len(Queue.flushed) = 2
    /\ Queue.flushed[1].kind = "timeScale"
    /\ Queue.flushed[1].v = 20
    /\ Queue.flushed[2].kind = "tick"
    /\ Queue.flushed[2].controls.running
    /\ Queue.updates = <<>>
    /\ lastTick.called
    /\ In.timeScale = 20
    /\ state.timeScale = 20
    /\ state.metrics.distanceM > 0

====
